---- MODULE Spec2Model ----
(***************************************************************************)
(* Model of the swing-your-swing upload pipeline:                          *)
(*   - POST /api/swings/upload      (app/api/src/index.ts)                 *)
(*   - DELETE /api/swings/:id, GET /api/swings/:id                         *)
(*   - analyzeSwingVideo / waitForFileActive / generateLessonRoadmap       *)
(*     (services/gemini.service.ts)                                        *)
(*   - compressVideo as seen by its caller (services/video.compression.ts) *)
(*                                                                         *)
(* Two specifications:                                                     *)
(*   Spec      the request handlers of the API, interleaved at their await *)
(*             points (the JS event loop runs the code between two awaits  *)
(*             atomically);                                                *)
(*   SpecPoll  the readiness poll waitForFileActive with a clock.          *)
(***************************************************************************)
EXTENDS Integers, Sequences, FiniteSets, TLC

\* ------------------------------------------------------------------ bounds
MaxRuns == 2
MaxLatencySteps == 2
MaxJitterSteps == 1
MaxDurationDs == 700
MaxChunks == 2
MaxCrudOps == 3
MaxPoseTicks == 3
MaxSetups == 4

Runs == 1..MaxRuns

\* ------------------------------------------------------- JavaScript values
Undefined == <<"undefined">>
JsNull == <<"null">>
Str(s) == <<"string", s>>
Num(n) == <<"number", n>>
Obj(o) == <<"object", o>>
Arr(a) == <<"array", a>>

\* JSON.stringify(v): undefined stays undefined, anything else becomes text.
JSONstringify(v) == IF v = Undefined THEN Undefined ELSE <<"jsontext", v>>

\* typeof v === 'string'
IsString(v) == v[1] \in {"string", "jsontext"}

\* JSON.parse of a text produced by JSON.stringify.
JSONparse(t) == t[2]

\* A value bound to a statement parameter: undefined and null both store NULL.
SqlNull == <<"null">>
Bind(v) == IF v \in {Undefined, JsNull} THEN SqlNull ELSE v

\* ------------------------------------------------- remote service responses
AnglesA == [spineAngle |-> 35, shoulderTurn |-> 5, hipTurn |-> 2, leadArmAngle |-> 175]
AnglesT == [spineAngle |-> 33, shoulderTurn |-> 92, hipTurn |-> 44, leadArmAngle |-> 168]

FullTimestamps ==
  Obj([address |-> Num(0), top |-> Num(800), impact |-> Num(1100), finish |-> Num(1900)])
\* "top": null, and no "finish" member
PartialTimestamps ==
  Obj([address |-> Num(0), top |-> JsNull, impact |-> Num(1100), finish |-> Undefined])

AiObject(ts, a1, a2, a3, a4) ==
  Obj([timestampsMs |-> ts, addressAngles |-> a1, topAngles |-> a2,
       impactAngles |-> a3, finishAngles |-> a4,
       estimatedClubSpeed |-> Num(92), estimatedClubPath |-> Str("Straight"),
       estimatedDistance |-> Num(230)])

\* What JSON.parse of the analysis response may yield.
AiDataSamples ==
  { JsNull,
    AiObject(Undefined, Undefined, Undefined, Undefined, Undefined),
    AiObject(FullTimestamps, Obj(AnglesA), Obj(AnglesT), Obj(AnglesA), Obj(AnglesT)),
    AiObject(PartialTimestamps, Obj(AnglesA), JsNull, Obj(AnglesA), Undefined) }

\* The ways analyzeSwingVideo throws.
AnalysisErrors ==
  {"uploadError", "pollFailed", "pollTimeout", "inferenceError", "parseError"}

Roadmap(goal) ==
  [goalType |-> Str(goal), drills |-> Arr(<<"d1", "d2", "d3">>), aiReview |-> Str("review")]
\* A character of a JSON string: it has none of the properties read from it.
CharItem == [goalType |-> Undefined, drills |-> Undefined, aiReview |-> Undefined]

\* What generateLessonRoadmap may resolve to: null (remote or parse failure,
\* or the JSON null), a JSON array, a JSON string.
RoadmapSamples ==
  { [kind |-> "null", items |-> <<>>],
    [kind |-> "string", items |-> <<CharItem, CharItem>>],
    [kind |-> "array", items |-> <<>>],
    [kind |-> "array", items |-> <<Roadmap("Ideal"), Roadmap("Playable")>>],
    [kind |-> "array", items |-> <<Roadmap("Ideal")>>],
    [kind |-> "array", items |-> <<Roadmap("Ideal"), Roadmap("Playable"), Roadmap("Ideal")>>],
    [kind |-> "array", items |-> <<Roadmap("Ideal"), Roadmap("Other")>>] }

\* ------------------------------------------------------------------- state
VARIABLES
  apiKey,        \* "DUMMY_KEY" or "real"            (gemini.service.ts:4)
  pc,            \* per run: where the upload handler is suspended
  absolutePath,  \* per run: the handler's working file
  resp,          \* per run: the HTTP response sent
  transcode,     \* per run: how compressVideo settled
  analysis,      \* per run: how analyzeSwingVideo settled
  coaching,      \* per run: what generateLessonRoadmap resolved to
  swings,        \* table swings: id -> row
  swing_metrics, \* table swing_metrics: set of rows
  lessons,       \* table lessons: swingId -> its rows in insertion order
  deleted,       \* swing ids removed by DELETE /api/swings/:id
  wpc,           \* waitForFileActive: position
  elapsed,       \* waitForFileActive: Date.now() - start, in ms
  lastLatency,   \* waitForFileActive: duration of the last ai.files.get
  lastSleep,     \* waitForFileActive: duration of the last setTimeout wait
  observed,      \* waitForFileActive: file.state of the last poll
  launch_monitor_data, \* table launch_monitor_data: set of rows
  comments,      \* table comments: rows in insertion order
  lmpc,          \* per target swing id: where a launch-monitor request is
  reply,         \* the last response of a favorite/comment/launch-monitor
                 \* or reprocess request
  crudOps,       \* how many such requests have been received
  xc,            \* compressVideo: one call's inputs, position and result
  pose,          \* analyzePose: one call's subprocess, callbacks and result
  merged,        \* getCoachingFromPoseData: one call's inputs and result
  players,       \* table players: set of rows
  setups,        \* how many times setupDB has been called
  schema,        \* whether the tables exist in the database file
  setupThrew     \* whether a call of setupDB has thrown

apiVars == <<apiKey, pc, absolutePath, resp, transcode, analysis, coaching,
             swings, swing_metrics, lessons, deleted>>
crudVars == <<launch_monitor_data, comments, lmpc, reply, crudOps>>
pollVars == <<wpc, elapsed, lastLatency, lastSleep, observed>>
dbVars == <<players, setups, schema, setupThrew>>
auxVars == <<xc, pose, merged, dbVars>>
vars == <<apiVars, crudVars, pollVars, auxVars>>

NoReply == [op |-> "none", id |-> 0, status |-> 0, was |-> 0, isFavorite |-> FALSE]
RawFile(r) == <<"raw", r>>
CompressedFile(r) == <<"compressed", r>>
NoFile == <<"none", 0>>
NoResponse == [status |-> 0, swingId |-> 0]
Response(status, id) == [status |-> status, swingId |-> id]

\* ------------------------------------------------------------- persistence
\* INSERT INTO swings (id, playerId, club, videoUrl, analyzed) VALUES (?,?,?,?,0)
InitialAnalyzed_true == TRUE
InitialAnalyzed == FALSE
\* Column swings.isFavorite is not bound by the INSERT: it takes its default.
DefaultIsFavorite == 0
InsertSwing_skipped(sw, id, playerId, club, videoUrl) == sw
InsertSwing(sw, id, playerId, club, videoUrl) ==
  (id :> [playerId |-> playerId, club |-> club, videoUrl |-> videoUrl,
          analyzed |-> InitialAnalyzed, isFavorite |-> DefaultIsFavorite]) @@ sw

\* The row insertMetrics.run(...) binds from aiData (an object with timestampsMs).
MetricsRow(id, aiData) ==
  LET d == aiData[2]
      ts == d.timestampsMs[2]
  IN [swingId |-> id,
      addressTimeMs |-> Bind(ts.address),
      topTimeMs |-> Bind(ts.top),
      impactTimeMs |-> Bind(ts.impact),
      finishTimeMs |-> Bind(ts.finish),
      addressAngles |-> Bind(JSONstringify(d.addressAngles)),
      topAngles |-> Bind(JSONstringify(d.topAngles)),
      impactAngles |-> Bind(JSONstringify(d.impactAngles)),
      finishAngles |-> Bind(JSONstringify(d.finishAngles)),
      estimatedClubSpeed |-> Bind(d.estimatedClubSpeed),
      estimatedClubPath |-> Bind(d.estimatedClubPath),
      estimatedDistance |-> Bind(d.estimatedDistance)]

\* aiData.timestampsMs.address throws a TypeError when timestampsMs is missing.
ReadsTimestamps(aiData) == aiData[1] = "object" /\ aiData[2].timestampsMs[1] = "object"

\* swingId TEXT NOT NULL UNIQUE
MetricsUniqueOk(sm, id) == \A m \in sm : m.swingId # id

\* goalType TEXT CHECK(goalType IN ('Ideal', 'Playable')): a NULL passes a CHECK.
GoalTypeCheck(g) == g = SqlNull \/ g \in {Str("Ideal"), Str("Playable")}

LessonRow(id, rm) ==
  [swingId |-> id, goalType |-> Bind(rm.goalType),
   drills |-> Bind(JSONstringify(rm.drills)), aiReview |-> Bind(rm.aiReview)]

\* for (const rm of roadmaps) insertLesson.run(...): rows are inserted one by
\* one until an insert throws.
RECURSIVE InsertLessons(_, _, _)
InsertLessons(ls, id, items) ==
  IF items = <<>> THEN [rows |-> ls, threw |-> FALSE]
  ELSE LET row == LessonRow(id, Head(items))
       IN IF GoalTypeCheck(row.goalType)
          THEN InsertLessons([ls EXCEPT ![id] = Append(@, row)], id, Tail(items))
          ELSE [rows |-> ls, threw |-> TRUE]

\* roadmaps && roadmaps.length > 0
HasRoadmaps(rm) == rm.kind \in {"array", "string"} /\ Len(rm.items) > 0

\* UPDATE swings SET analyzed = 1 WHERE id = ?
SetAnalyzed_everyRow(sw, id) == [i \in DOMAIN sw |-> [sw[i] EXCEPT !.analyzed = TRUE]]
SetAnalyzed(sw, id) ==
  IF id \in DOMAIN sw THEN [sw EXCEPT ![id].analyzed = TRUE] ELSE sw

LessonsOf(ls, id) == ls[id]
MetricsOf(sm, id) == {m \in sm : m.swingId = id}

\* -------------------------------------------------- POST /api/swings/upload
\* if (!file || !club) return res.status(400)
ValidUpload_fileOnly(hasFile, hasClub) == hasFile
ValidUpload(hasFile, hasClub) == hasFile /\ hasClub

UploadRequest_insertsFirst(r, hasFile, hasClub) ==
  /\ pc[r] = "idle"
  /\ IF r = 1 THEN TRUE ELSE pc[r - 1] # "idle"
  /\ hasFile /\ hasClub
  /\ swings' = InsertSwing(swings, r, "usr_12345", "Driver", RawFile(r))
  /\ pc' = [pc EXCEPT ![r] = "compressing"]
  /\ absolutePath' = [absolutePath EXCEPT ![r] = RawFile(r)]
  /\ UNCHANGED <<apiKey, resp, transcode, analysis, coaching, swing_metrics,
                 lessons, deleted, pollVars, crudVars, auxVars>>

\* The request arrives (multer has stored the raw file when one was sent); the
\* handler validates it and suspends in compressVideo.
UploadRequest(r, hasFile, hasClub) ==
  /\ pc[r] = "idle"
  /\ IF r = 1 THEN TRUE ELSE pc[r - 1] # "idle"
  /\ IF ValidUpload(hasFile, hasClub)
     THEN /\ pc' = [pc EXCEPT ![r] = "compressing"]
          /\ absolutePath' = [absolutePath EXCEPT ![r] = RawFile(r)]
          /\ resp' = resp
     ELSE /\ pc' = [pc EXCEPT ![r] = "done"]
          /\ resp' = [resp EXCEPT ![r] = Response(400, 0)]
          /\ absolutePath' = absolutePath
  /\ UNCHANGED <<apiKey, transcode, analysis, coaching, swings, swing_metrics,
                 lessons, deleted, pollVars, crudVars, auxVars>>

\* The ways compressVideo rejects.
TranscodeErrors == {"probeError", "statError", "encodeError"}

\* absolutePath after the try/catch around compressVideo.
WorkingPath_alwaysOutput(r, outcome) == CompressedFile(r)
WorkingPath(r, outcome) ==
  IF outcome = "ok" THEN CompressedFile(r) ELSE RawFile(r)

\* compressVideo settles (resolves with the output path, or rejects).  The
\* handler then inserts the Swing and calls analyzeSwingVideo, which resolves
\* to null at once with the dummy key.
CompressSettles(r, outcome) ==
  /\ pc[r] = "compressing"
  /\ outcome \in TranscodeErrors \cup {"ok"}
  /\ transcode' = [transcode EXCEPT ![r] = IF outcome = "ok" THEN "ok" ELSE "failed"]
  /\ absolutePath' = [absolutePath EXCEPT ![r] = WorkingPath(r, outcome)]
  /\ swings' = InsertSwing(swings, r, "usr_12345", "Driver", WorkingPath(r, outcome))
  /\ IF apiKey = "DUMMY_KEY"
     THEN /\ analysis' = [analysis EXCEPT ![r] = "dummy"]
          /\ resp' = [resp EXCEPT ![r] = Response(200, r)]
          /\ pc' = [pc EXCEPT ![r] = "done"]
     ELSE /\ pc' = [pc EXCEPT ![r] = "analyzing"]
          /\ UNCHANGED <<analysis, resp>>
  /\ UNCHANGED <<apiKey, coaching, swing_metrics, lessons, deleted, pollVars, crudVars, auxVars>>

\* analyzeSwingVideo rejects: the handler's outer catch answers 500.
AnalyzeThrows(r, err) ==
  /\ pc[r] = "analyzing"
  /\ err \in AnalysisErrors
  /\ analysis' = [analysis EXCEPT ![r] = "threw"]
  /\ resp' = [resp EXCEPT ![r] = Response(500, 0)]
  /\ pc' = [pc EXCEPT ![r] = "done"]
  /\ UNCHANGED <<apiKey, absolutePath, transcode, coaching, swings, swing_metrics,
                 lessons, deleted, pollVars, crudVars, auxVars>>

\* analyzeSwingVideo resolves to the parsed response.
AnalyzeReturns(r, aiData) ==
  /\ pc[r] = "analyzing"
  /\ analysis' = [analysis EXCEPT ![r] = "parsed"]
  /\ IF aiData = JsNull
     THEN \* if (aiData) is false: nothing is stored
          /\ resp' = [resp EXCEPT ![r] = Response(200, r)]
          /\ pc' = [pc EXCEPT ![r] = "done"]
          /\ UNCHANGED swing_metrics
     ELSE IF ReadsTimestamps(aiData) /\ MetricsUniqueOk(swing_metrics, r)
     THEN /\ swing_metrics' = swing_metrics \cup {MetricsRow(r, aiData)}
          /\ pc' = [pc EXCEPT ![r] = "coaching"]
          /\ UNCHANGED resp
     ELSE \* TypeError or constraint error, caught by the outer catch
          /\ resp' = [resp EXCEPT ![r] = Response(500, 0)]
          /\ pc' = [pc EXCEPT ![r] = "done"]
          /\ UNCHANGED swing_metrics
  /\ UNCHANGED <<apiKey, absolutePath, transcode, coaching, swings, lessons,
                 deleted, pollVars, crudVars, auxVars>>

\* generateLessonRoadmap resolves (it never rejects): the lessons are inserted,
\* the Swing is marked analyzed and the response is sent.
CoachSettles(r, rm) ==
  /\ pc[r] = "coaching"
  /\ coaching' = [coaching EXCEPT ![r] = rm]
  /\ pc' = [pc EXCEPT ![r] = "done"]
  /\ LET ins == IF HasRoadmaps(rm) THEN InsertLessons(lessons, r, rm.items)
                ELSE [rows |-> lessons, threw |-> FALSE]
     IN /\ lessons' = ins.rows
        /\ IF ins.threw
           THEN /\ resp' = [resp EXCEPT ![r] = Response(500, 0)]
                /\ UNCHANGED swings
           ELSE /\ swings' = SetAnalyzed(swings, r)
                /\ resp' = [resp EXCEPT ![r] = Response(200, r)]
  /\ UNCHANGED <<apiKey, absolutePath, transcode, analysis, swing_metrics,
                 deleted, pollVars, crudVars, auxVars>>

\* --------------------------------------------------- DELETE /api/swings/:id
RemoveKey_kept(f, k) == f
RemoveKey(f, k) == [i \in DOMAIN f \ {k} |-> f[i]]

\* DELETE FROM comments WHERE swingId = ?
DeleteComments(cs, id) == SelectSeq(cs, LAMBDA c : c.swingId # id)

\* DELETE FROM swing_metrics WHERE swingId = ?
DeleteMetrics_kept(sm, id) == sm
DeleteMetrics(sm, id) == {m \in sm : m.swingId # id}

\* The dependent rows are deleted, then the Swing (the unlink of the video
\* file that follows touches no table).
DeleteSwing(id) ==
  /\ id \in DOMAIN swings
  /\ comments' = DeleteComments(comments, id)
  /\ launch_monitor_data' = {l \in launch_monitor_data : l.swingId # id}
  /\ lessons' = [lessons EXCEPT ![id] = <<>>]
  /\ swing_metrics' = DeleteMetrics(swing_metrics, id)
  /\ swings' = RemoveKey(swings, id)
  /\ deleted' = deleted \cup {id}
  /\ UNCHANGED <<apiKey, pc, absolutePath, resp, transcode, analysis, coaching,
                 lmpc, reply, crudOps, pollVars, auxVars>>

\* ------------------------------------------- POST /api/swings/:id/favorite
CrudReply(op, id, status) ==
  [op |-> op, id |-> id, status |-> status, was |-> 0, isFavorite |-> FALSE]

\* const newStatus = swing.isFavorite ? 0 : 1
NewStatus_alwaysOn(isFavorite) == 1
NewStatus(isFavorite) == IF isFavorite # 0 THEN 0 ELSE 1

\* res.json({ ..., isFavorite: !!newStatus })
FavoriteReply(id, was, newStatus) ==
  [op |-> "favorite", id |-> id, status |-> 200, was |-> was,
   isFavorite |-> (newStatus # 0)]

ToggleFavorite(id) ==
  /\ crudOps < MaxCrudOps
  /\ crudOps' = crudOps + 1
  /\ IF id \notin DOMAIN swings
     THEN /\ reply' = CrudReply("favorite", id, 404)
          /\ UNCHANGED swings
     ELSE /\ swings' = [swings EXCEPT ![id].isFavorite = NewStatus(@)]
          /\ reply' = FavoriteReply(id, swings[id].isFavorite,
                                    NewStatus(swings[id].isFavorite))
  /\ UNCHANGED <<apiKey, pc, absolutePath, resp, transcode, analysis, coaching,
                 swing_metrics, lessons, deleted, launch_monitor_data, comments,
                 lmpc, pollVars, auxVars>>

\* ------------------------------------------- POST /api/swings/:id/comments
\* req.body.text: absent, a string of blanks, a non-empty string, or a number.
CommentTexts == {"absent", "blank", "text", "number"}
\* !text || text.trim() === ''
TextMissing(text) == text \in {"absent", "blank"}
\* text.trim is not a function: the TypeError is thrown outside the try block.
TrimThrows(text) == text = "number"

AddComment(id, text) ==
  /\ crudOps < MaxCrudOps
  /\ crudOps' = crudOps + 1
  /\ IF TextMissing(text)
     THEN /\ reply' = CrudReply("comment", id, 400)
          /\ UNCHANGED comments
     ELSE IF TrimThrows(text)
     THEN /\ reply' = CrudReply("comment", id, 500)
          /\ UNCHANGED comments
     ELSE /\ comments' = Append(comments, [swingId |-> id, text |-> text])
          /\ reply' = CrudReply("comment", id, 201)
  /\ UNCHANGED <<apiVars, launch_monitor_data, lmpc, pollVars, auxVars>>

\* --------------------------------------- POST /api/swings/:id/launch-monitor
\* swingId is UNIQUE in launch_monitor_data.
LaunchUniqueOk(lm, id) == \A l \in lm : l.swingId # id

\* The request arrives: 400 without an image; with the dummy key
\* extractLaunchMonitorData resolves to null at once; otherwise the handler
\* suspends in it.
LmRequest(id, hasFile) ==
  /\ crudOps < MaxCrudOps
  /\ lmpc[id] = "idle"
  /\ crudOps' = crudOps + 1
  /\ IF ~hasFile
     THEN reply' = CrudReply("launch", id, 400) /\ UNCHANGED lmpc
     ELSE IF apiKey = "DUMMY_KEY"
     THEN reply' = CrudReply("launchUnavailable", id, 200) /\ UNCHANGED lmpc
     ELSE lmpc' = [lmpc EXCEPT ![id] = "extracting"] /\ UNCHANGED reply
  /\ UNCHANGED <<apiVars, launch_monitor_data, comments, pollVars, auxVars>>

\* extractLaunchMonitorData settles: with extracted data, with null (the model
\* answered the JSON text null), or by throwing.
LmOutcomes == {"data", "null", "throws"}
LmSettles(id, outcome) ==
  /\ lmpc[id] = "extracting"
  /\ outcome \in LmOutcomes
  /\ lmpc' = [lmpc EXCEPT ![id] = "idle"]
  /\ IF outcome = "data" /\ LaunchUniqueOk(launch_monitor_data, id)
     THEN /\ launch_monitor_data' = launch_monitor_data \cup {[swingId |-> id]}
          /\ reply' = CrudReply("launch", id, 200)
     ELSE /\ reply' = IF outcome = "null"
                      THEN CrudReply("launchUnavailable", id, 200)
                      ELSE CrudReply("launch", id, 500)
          /\ UNCHANGED launch_monitor_data
  /\ UNCHANGED <<apiVars, comments, crudOps, pollVars, auxVars>>

\* --------------------------------------------- POST /api/swings/:id/reprocess
\* The client's "Reprocess with AI" button posts to this path; the server
\* registers no route for it, so express answers 404 and no handler runs.
Reprocess(id) ==
  /\ crudOps < MaxCrudOps
  /\ crudOps' = crudOps + 1
  /\ reply' = CrudReply("reprocess", id, 404)
  /\ UNCHANGED <<apiVars, launch_monitor_data, comments, lmpc, pollVars, auxVars>>

\* ------------------------------------------------------ GET /api/swings/:id
\* The four angle columns are parsed back when they hold a string.
ParseAngles(v) == IF IsString(v) THEN JSONparse(v) ELSE v
ParsedMetrics(m) ==
  [m EXCEPT !.addressAngles = ParseAngles(@), !.topAngles = ParseAngles(@),
            !.impactAngles = ParseAngles(@), !.finishAngles = ParseAngles(@)]

GetSwing(id) ==
  IF id \notin DOMAIN swings
  THEN [status |-> 404, swing |-> {}, metrics |-> {}, lessons |-> <<>>,
        launchData |-> {}, comments |-> <<>>]
  ELSE [status |-> 200, swing |-> {swings[id]},
        metrics |-> {ParsedMetrics(m) : m \in MetricsOf(swing_metrics, id)},
        lessons |-> LessonsOf(lessons, id),
        launchData |-> {l \in launch_monitor_data : l.swingId = id},
        comments |-> SelectSeq(comments, LAMBDA c : c.swingId = id)]

\* ------------------------------------------------------- waitForFileActive
MAX_WAIT_MS == 120000
POLL_INTERVAL_MS == 3000

\* How long one ai.files.get may take, and how late a timer may fire.
Latencies == {i * 1000 : i \in 0..MaxLatencySteps}
Jitters == {i * 500 : i \in 0..MaxJitterSteps}
FileStates == {"PROCESSING", "ACTIVE", "FAILED"}

\* while (Date.now() - start < MAX_WAIT_MS)
PollLoopCond_inclusive(e) == e <= MAX_WAIT_MS
PollLoopCond(e) == e < MAX_WAIT_MS

PollCheck ==
  /\ wpc = "check"
  /\ wpc' = IF PollLoopCond(elapsed) THEN "getting" ELSE "timeout"
  /\ UNCHANGED <<elapsed, lastLatency, lastSleep, observed, apiVars, crudVars, auxVars>>

\* Where the loop body goes on the state a poll has read.
AfterPoll_failedIgnored(state) ==
  IF state = "ACTIVE" THEN "returned" ELSE "sleeping"
AfterPoll(state) ==
  CASE state = "ACTIVE" -> "returned"
    [] state = "FAILED" -> "failed"
    [] OTHER -> "sleeping"

\* ai.files.get resolves after some latency with the file's state.
PollGet(state, latency) ==
  /\ wpc = "getting"
  /\ elapsed' = elapsed + latency
  /\ lastLatency' = latency
  /\ observed' = state
  /\ wpc' = AfterPoll(state)
  /\ UNCHANGED <<lastSleep, apiVars, crudVars, auxVars>>

\* ai.files.get rejects: the error leaves waitForFileActive.
PollGetThrows(latency) ==
  /\ wpc = "getting"
  /\ elapsed' = elapsed + latency
  /\ lastLatency' = latency
  /\ wpc' = "getError"
  /\ UNCHANGED <<lastSleep, observed, apiVars, crudVars, auxVars>>

\* await new Promise(resolve => setTimeout(resolve, POLL_INTERVAL_MS))
PollSleep(jitter) ==
  /\ wpc = "sleeping"
  /\ elapsed' = elapsed + POLL_INTERVAL_MS + jitter
  /\ lastSleep' = POLL_INTERVAL_MS + jitter
  /\ wpc' = "check"
  /\ UNCHANGED <<lastLatency, observed, apiVars, crudVars, auxVars>>

PollTerminal == {"returned", "failed", "timeout", "getError"}

\* ------------------------------------------------------- analyzeSwingVideo
\* Where uploadVideoToGemini goes once ai.files.upload has resolved: into
\* waitForFileActive, which it awaits before returning.
AfterUpload_noWait == "returned"
AfterUpload == "check"

\* if (apiKey === "DUMMY_KEY") return null; otherwise the media is uploaded.
AnalyzeEntry ==
  /\ wpc = "entry"
  /\ wpc' = IF apiKey = "DUMMY_KEY" THEN "null" ELSE "uploading"
  /\ UNCHANGED <<elapsed, lastLatency, lastSleep, observed, apiVars, crudVars, auxVars>>

\* ai.files.upload settles.
UploadSettles(ok) ==
  /\ wpc = "uploading"
  /\ wpc' = IF ok THEN AfterUpload ELSE "uploadError"
  /\ UNCHANGED <<elapsed, lastLatency, lastSleep, observed, apiVars, crudVars, auxVars>>

\* waitForFileActive and uploadVideoToGemini have returned:
\* ai.models.generateContent is requested over the uploaded file.
InferStart ==
  /\ wpc = "returned"
  /\ wpc' = "inferring"
  /\ UNCHANGED <<elapsed, lastLatency, lastSleep, observed, apiVars, crudVars, auxVars>>

\* generateContent settles and its text is parsed.
InferOutcomes == {"parsed", "inferenceError", "parseError"}
InferSettles(outcome) ==
  /\ wpc = "inferring"
  /\ outcome \in InferOutcomes
  /\ wpc' = outcome
  /\ UNCHANGED <<elapsed, lastLatency, lastSleep, observed, apiVars, crudVars, auxVars>>

\* ----------------------------------------------------------- compressVideo
\* Durations are counted in tenths of a second, sizes in bytes.
TARGET_SIZE_MB == 25
AudioBitrate == 128 * 1024
MinVideoBitrateKbps == 500
DefaultDurationDs == 100
MaxHeight == 1080
CrfQuality == 23

Max(a, b) == IF a >= b THEN a ELSE b
Min(a, b) == IF a <= b THEN a ELSE b

\* metadata.format.duration || 10
DurationOr10(reported) == IF reported = 0 THEN DefaultDurationDs ELSE reported

\* inputSizeMB <= TARGET_SIZE_MB, with inputSizeMB = inputSizeBytes / (1024 * 1024)
UnderTarget(sizeBytes) == sizeBytes <= TARGET_SIZE_MB * 1024 * 1024

\* Math.floor((targetBitsPerSec - audioBitrate) / 1024), where
\* targetBitsPerSec = (TARGET_SIZE_MB * 8 * 1024 * 1024) / durationSec and
\* durationSec = ds / 10: the quotient is floored once, as the code floors it.
RawVideoBitrate_audioIgnored(ds) ==
  (TARGET_SIZE_MB * 8 * 1024 * 1024 * 10) \div (1024 * ds)
RawVideoBitrate(ds) ==
  (TARGET_SIZE_MB * 8 * 1024 * 1024 * 10 - AudioBitrate * ds) \div (1024 * ds)

\* Math.max(500, ...)
VideoBitrateKbps_noFloor(ds) == RawVideoBitrate(ds)
VideoBitrateKbps(ds) == Max(MinVideoBitrateKbps, RawVideoBitrate(ds))

\* -vf scale=-2:'min(1080,ih)'
ScaledHeight_fixed(ih) == MaxHeight
ScaledHeight(ih) == Min(MaxHeight, ih)

XcOff == [stage |-> "off", sizeBytes |-> 0, reported |-> 0, height |-> 0,
          durationDs |-> 0, mode |-> "none", crf |-> 0, kbps |-> 0,
          maxrate |-> 0, bufsize |-> 0, outHeight |-> 0,
          rawExists |-> FALSE, outExists |-> FALSE, unlink |-> "none",
          working |-> "none"]

\* getVideoDuration settles: ffprobe's duration (or 10 s), or its error.
XcProbe(ok) ==
  /\ xc.stage = "probe"
  /\ xc' = IF ok
           THEN [xc EXCEPT !.stage = "stat", !.durationDs = DurationOr10(xc.reported)]
           ELSE [xc EXCEPT !.stage = "failed", !.working = "raw"]
  /\ UNCHANGED <<apiVars, crudVars, pollVars, pose, merged, dbVars>>

\* fs.stat resolves; the encode mode is chosen and ffmpeg is started.
XcStat ==
  /\ xc.stage = "stat"
  /\ xc' = IF UnderTarget(xc.sizeBytes)
           THEN [xc EXCEPT !.stage = "encoding", !.mode = "crf", !.crf = CrfQuality,
                           !.outHeight = ScaledHeight(xc.height)]
           ELSE LET k == VideoBitrateKbps(xc.durationDs)
                IN [xc EXCEPT !.stage = "encoding", !.mode = "bitrate", !.kbps = k,
                              !.maxrate = k, !.bufsize = k * 2,
                              !.outHeight = ScaledHeight(xc.height)]
  /\ UNCHANGED <<apiVars, crudVars, pollVars, pose, merged, dbVars>>

\* ffmpeg emits 'end' (the output is written) or 'error' (an output file may
\* have been started: `written`); after an error compressVideo rejects and the
\* upload handler keeps the raw path.
XcEncodeEnds(ok, written) ==
  /\ xc.stage = "encoding"
  /\ ok => written
  /\ xc' = IF ok
           THEN [xc EXCEPT !.stage = "cleanup", !.outExists = TRUE]
           ELSE [xc EXCEPT !.stage = "failed", !.outExists = written,
                           !.working = "raw"]
  /\ UNCHANGED <<apiVars, crudVars, pollVars, pose, merged, dbVars>>

\* How fs.unlink(inputPath) settles: the file is removed, it was already gone,
\* or it cannot be removed.
UnlinkOutcomes == {"ok", "ENOENT", "EPERM"}
StillThere(o) == o = "EPERM"

\* cleanupOriginal settles (it never throws), then the promise resolves with
\* the output path, which the upload handler takes as the working path.
XcCleanup(o) ==
  /\ xc.stage = "cleanup"
  /\ xc' = [xc EXCEPT !.stage = "done", !.unlink = o,
                      !.rawExists = StillThere(o), !.working = "output"]
  /\ UNCHANGED <<apiVars, crudVars, pollVars, pose, merged, dbVars>>

\* ------------------------------------------------------------- analyzePose
\* stdout is the sequence of chunks received; a chunk is whitespace ("ws"),
\* text that is not JSON ("junk"), or the text of one whole JSON document,
\* named by what JSON.parse makes of it.
PoseDocs == {"full",          \* a PoseAnalysisResult, no error field
             "fullErrEmpty",  \* the same, with "error": ""
             "error",         \* {"error": "<message>"}
             "noTimestamps",  \* an object with neither error nor timestampsMs
             "null"}          \* the document null
StdoutChunks == PoseDocs \cup {"ws", "junk"}
StderrChunkSizes == {200, 400}
\* Exit codes; -1 stands for null (the process was ended by a signal).
ExitCodes == {0, 1, -1}
StderrExcerpt == 500

RECURSIVE TrimStart(_)
TrimStart(s) == IF s # <<>> /\ Head(s) = "ws" THEN TrimStart(Tail(s)) ELSE s
RECURSIVE TrimEnd(_)
TrimEnd(s) ==
  IF s # <<>> /\ s[Len(s)] = "ws" THEN TrimEnd(SubSeq(s, 1, Len(s) - 1)) ELSE s
\* stdout.trim()
Trim(s) == TrimEnd(TrimStart(s))

\* JSON.parse accepts exactly one document.
PoseParses(s) == Len(Trim(s)) = 1 /\ Trim(s)[1] \in PoseDocs
PoseParsed(s) == Trim(s)[1]

\* if (result.error): reading a property of null throws a TypeError.
ErrorReadThrows(doc) == doc = "null"
ErrorTruthy_fieldPresent(doc) == doc \in {"error", "fullErrEmpty"}
ErrorTruthy(doc) == doc = "error"
\* result.timestampsMs.address, read for the log line inside the try block
TimestampsReadThrows(doc) == doc \notin {"full", "fullErrEmpty"}

\* stderr.slice(0, 500)
Slice(len, n) == Min(len, n)

NoPoseError == [kind |-> "none", excerptLen |-> 0]
PoseOff == [stage |-> "off", spawned |-> FALSE, stdout |-> <<>>, stderrLen |-> 0,
            stderrChunks |-> 0, closed |-> FALSE, exitCode |-> 0, errored |-> FALSE,
            promise |-> "pending", value |-> "none", error |-> NoPoseError,
            settleCalls |-> 0, waited |-> 0]

\* resolve / reject of the promise analyzePose returns: the first call settles it.
PoseResolve(p, doc) ==
  IF p.promise = "pending"
  THEN [p EXCEPT !.promise = "resolved", !.value = doc,
                 !.settleCalls = p.settleCalls + 1]
  ELSE [p EXCEPT !.settleCalls = p.settleCalls + 1]
PoseReject(p, kind, excerptLen) ==
  IF p.promise = "pending"
  THEN [p EXCEPT !.promise = "rejected",
                 !.error = [kind |-> kind, excerptLen |-> excerptLen],
                 !.settleCalls = p.settleCalls + 1]
  ELSE [p EXCEPT !.settleCalls = p.settleCalls + 1]

\* python.stdout.on('data')
PoseStdoutData(chunk) ==
  /\ pose.stage = "running" /\ pose.spawned /\ ~pose.closed
  /\ Len(pose.stdout) < MaxChunks
  /\ pose' = [pose EXCEPT !.stdout = Append(pose.stdout, chunk)]
  /\ UNCHANGED <<apiVars, crudVars, pollVars, xc, merged, dbVars>>

\* python.stderr.on('data')
PoseStderrData(size) ==
  /\ pose.stage = "running" /\ pose.spawned /\ ~pose.closed
  /\ pose.stderrChunks < MaxChunks
  /\ pose' = [pose EXCEPT !.stderrLen = pose.stderrLen + size,
                          !.stderrChunks = pose.stderrChunks + 1]
  /\ UNCHANGED <<apiVars, crudVars, pollVars, xc, merged, dbVars>>

\* python.on('close'): the whole handler.
PoseCloseHandler(p, code) ==
  IF code # 0
  THEN PoseReject(p, "exit", Slice(p.stderrLen, StderrExcerpt))
  ELSE IF ~PoseParses(p.stdout) \/ ErrorReadThrows(PoseParsed(p.stdout))
  THEN PoseReject(p, "parse", 0)
  ELSE IF ErrorTruthy(PoseParsed(p.stdout))
  THEN PoseReject(p, "embedded", 0)
  ELSE IF TimestampsReadThrows(PoseParsed(p.stdout))
  THEN PoseReject(p, "parse", 0)
  ELSE PoseResolve(p, PoseParsed(p.stdout))

\* A process that could not be spawned never exits with code 0.
PoseClose(code) ==
  /\ pose.stage = "running" /\ ~pose.closed
  /\ pose.spawned \/ code # 0
  /\ pose' = PoseCloseHandler([pose EXCEPT !.closed = TRUE, !.exitCode = code], code)
  /\ UNCHANGED <<apiVars, crudVars, pollVars, xc, merged, dbVars>>

\* Time passes while the process runs and has not closed.  analyzePose sets no
\* timer and never kills the process: nothing happens in it as time passes.
PoseTick ==
  /\ pose.stage = "running" /\ pose.spawned /\ ~pose.closed
  /\ pose.waited < MaxPoseTicks
  /\ pose' = [pose EXCEPT !.waited = pose.waited + 1]
  /\ UNCHANGED <<apiVars, crudVars, pollVars, xc, merged, dbVars>>

\* python.on('error'): the process could not be spawned.
PoseError ==
  /\ pose.stage = "running" /\ ~pose.spawned /\ ~pose.errored
  /\ pose' = PoseReject([pose EXCEPT !.errored = TRUE], "spawn", 0)
  /\ UNCHANGED <<apiVars, crudVars, pollVars, xc, merged, dbVars>>

\* ------------------------------------------------- getCoachingFromPoseData
\* What analyzePose resolved to, and what JSON.parse of the remote answer may
\* yield: the three estimates alone, the estimates together with timestamps
\* and angles of its own, an object without the estimates, or null.
OtherTimestamps ==
  Obj([address |-> Num(100), top |-> Num(900), impact |-> Num(1200), finish |-> Num(2100)])
PoseData(ts, a1, a2, a3, a4) ==
  [timestampsMs |-> ts, addressAngles |-> a1, topAngles |-> a2,
   impactAngles |-> a3, finishAngles |-> a4]
PoseSamples ==
  {PoseData(ts, Obj(a1), Obj(a2), Obj(a3), Obj(a4)) :
     ts \in {FullTimestamps, OtherTimestamps}, a1 \in {AnglesA, AnglesT},
     a2 \in {AnglesA, AnglesT}, a3 \in {AnglesA, AnglesT}, a4 \in {AnglesA, AnglesT}}
EstimatesOnly == AiObject(Undefined, Undefined, Undefined, Undefined, Undefined)
EstimatesAndAngles ==
  AiObject(OtherTimestamps, Obj(AnglesT), Obj(AnglesA), Obj(AnglesT), Obj(AnglesA))
NoEstimates ==
  Obj([EstimatesOnly[2] EXCEPT !.estimatedClubSpeed = Undefined,
                               !.estimatedClubPath = Undefined,
                               !.estimatedDistance = Undefined])
EstimateResponses == {EstimatesOnly, EstimatesAndAngles, NoEstimates, JsNull}

\* The object literal the function returns.
MergeResult_spread(poseData, answer) ==
  LET c == answer[2]
      Pick(own, theirs) == IF theirs = Undefined THEN own ELSE theirs
  IN [timestampsMs |-> Pick(poseData.timestampsMs, c.timestampsMs),
      addressAngles |-> Pick(poseData.addressAngles, c.addressAngles),
      topAngles |-> Pick(poseData.topAngles, c.topAngles),
      impactAngles |-> Pick(poseData.impactAngles, c.impactAngles),
      finishAngles |-> Pick(poseData.finishAngles, c.finishAngles),
      estimatedClubSpeed |-> c.estimatedClubSpeed,
      estimatedClubPath |-> c.estimatedClubPath,
      estimatedDistance |-> c.estimatedDistance]
MergeResult(poseData, answer) ==
  [timestampsMs |-> poseData.timestampsMs,
   addressAngles |-> poseData.addressAngles,
   topAngles |-> poseData.topAngles,
   impactAngles |-> poseData.impactAngles,
   finishAngles |-> poseData.finishAngles,
   estimatedClubSpeed |-> answer[2].estimatedClubSpeed,
   estimatedClubPath |-> answer[2].estimatedClubPath,
   estimatedDistance |-> answer[2].estimatedDistance]

NoPoseData == PoseData(Undefined, Undefined, Undefined, Undefined, Undefined)
NoMerge == EstimatesOnly[2]
MergeOff == [stage |-> "off", poseData |-> NoPoseData, response |-> Undefined,
             outcome |-> "none", value |-> NoMerge]

\* if (apiKey === "DUMMY_KEY") return null; otherwise generateContent is awaited.
MergeCall ==
  /\ merged.stage = "call"
  /\ merged' = IF apiKey = "DUMMY_KEY"
               THEN [merged EXCEPT !.stage = "done", !.outcome = "null"]
               ELSE [merged EXCEPT !.stage = "requested"]
  /\ UNCHANGED <<apiVars, crudVars, pollVars, xc, pose, dbVars>>

\* generateContent rejects, or its text does not parse: the error is rethrown.
MergeThrows ==
  /\ merged.stage = "requested"
  /\ merged' = [merged EXCEPT !.stage = "done", !.outcome = "threw"]
  /\ UNCHANGED <<apiVars, crudVars, pollVars, xc, pose, dbVars>>

\* The text parses to the answer; reading a property of null throws.
MergeSettles(answer) ==
  /\ merged.stage = "requested"
  /\ merged' = IF answer = JsNull
               THEN [merged EXCEPT !.stage = "done", !.response = answer,
                                   !.outcome = "threw"]
               ELSE [merged EXCEPT !.stage = "done", !.response = answer,
                                   !.outcome = "merged",
                                   !.value = MergeResult(merged.poseData, answer)]
  /\ UNCHANGED <<apiVars, crudVars, pollVars, xc, pose, dbVars>>

\* ------------------------------------------------------------------ setupDB
GuestGolfer == [id |-> "usr_12345", name |-> "Guest Golfer"]

\* CREATE TABLE IF NOT EXISTS: never throws, keeps an existing table's rows.
CreateTables(exists) == TRUE
\* if (result.count === 0)
NeedsSeed_always(rows) == TRUE
NeedsSeed(rows) == Cardinality(rows) = 0
\* players.id is the PRIMARY KEY: inserting a second row with the id throws.
PlayerKeyFree(rows, row) == \A p \in rows : p.id # row.id

\* setupDB(): initSchema, count the players, seed the guest when there are none.
SetupDB ==
  /\ setups < MaxSetups
  /\ setups' = setups + 1
  /\ schema' = CreateTables(schema)
  /\ IF NeedsSeed(players)
     THEN IF PlayerKeyFree(players, GuestGolfer)
          THEN players' = players \cup {GuestGolfer} /\ UNCHANGED setupThrew
          ELSE setupThrew' = TRUE /\ UNCHANGED players
     ELSE UNCHANGED <<players, setupThrew>>
  /\ UNCHANGED <<apiVars, crudVars, pollVars, xc, pose, merged>>

\* Rows written to swings between calls of setupDB, and their removal.
SetupClubs == {"Driver", "7 Iron"}
SetupUrls == {"/test.mp4", "/uploads/a.mp4"}
SetupInsertSwing(id, club, url) ==
  /\ schema
  /\ id \notin DOMAIN swings
  /\ swings' = InsertSwing(swings, id, GuestGolfer.id, club, url)
  /\ UNCHANGED <<apiKey, pc, absolutePath, resp, transcode, analysis, coaching,
                 swing_metrics, lessons, deleted, crudVars, pollVars, auxVars>>
SetupDeleteSwing(id) ==
  /\ id \in DOMAIN swings
  /\ swings' = RemoveKey(swings, id)
  /\ UNCHANGED <<apiKey, pc, absolutePath, resp, transcode, analysis, coaching,
                 swing_metrics, lessons, deleted, crudVars, pollVars, auxVars>>

\* ----------------------------------------------------------- specifications
ApiInit ==
  /\ apiKey \in {"DUMMY_KEY", "real"}
  /\ pc = [r \in Runs |-> "idle"]
  /\ absolutePath = [r \in Runs |-> NoFile]
  /\ resp = [r \in Runs |-> NoResponse]
  /\ transcode = [r \in Runs |-> "none"]
  /\ analysis = [r \in Runs |-> "none"]
  /\ coaching = [r \in Runs |-> [kind |-> "none", items |-> <<>>]]
  /\ swings = <<>>
  /\ swing_metrics = {}
  /\ lessons = [id \in Runs |-> <<>>]
  /\ deleted = {}
  /\ launch_monitor_data = {}
  /\ comments = <<>>
  /\ lmpc = [id \in Runs |-> "idle"]
  /\ reply = NoReply
  /\ crudOps = 0

XcIdle == xc = XcOff
PoseIdle == pose = PoseOff
MergeIdle == merged = MergeOff
\* The server calls setupDB once when it starts.
DbIdle ==
  players = {GuestGolfer} /\ setups = 1 /\ schema = TRUE /\ setupThrew = FALSE

PollIdle ==
  /\ wpc = "off"
  /\ elapsed = 0
  /\ lastLatency = 0
  /\ lastSleep = 0
  /\ observed = "none"

Init == ApiInit /\ PollIdle /\ XcIdle /\ PoseIdle /\ MergeIdle /\ DbIdle

Next ==
  \/ \E r \in Runs, hasFile \in BOOLEAN, hasClub \in BOOLEAN :
       UploadRequest(r, hasFile, hasClub)
  \/ \E r \in Runs, o \in TranscodeErrors \cup {"ok"} : CompressSettles(r, o)
  \/ \E r \in Runs, e \in AnalysisErrors : AnalyzeThrows(r, e)
  \/ \E r \in Runs, d \in AiDataSamples : AnalyzeReturns(r, d)
  \/ \E r \in Runs, rm \in RoadmapSamples : CoachSettles(r, rm)
  \/ \E id \in Runs : DeleteSwing(id)

Spec == Init /\ [][Next]_vars

PollInit ==
  /\ ApiInit
  /\ apiKey = "real"
  /\ wpc = "check"
  /\ elapsed = 0
  /\ lastLatency = 0
  /\ lastSleep = 0
  /\ observed = "none"
  /\ XcIdle
  /\ PoseIdle
  /\ MergeIdle
  /\ DbIdle

PollNext ==
  \/ PollCheck
  \/ \E s \in FileStates, l \in Latencies : PollGet(s, l)
  \/ \E l \in Latencies : PollGetThrows(l)
  \/ \E j \in Jitters : PollSleep(j)

SpecPoll == PollInit /\ [][PollNext]_vars

AnalyzeInit ==
  /\ ApiInit
  /\ wpc = "entry"
  /\ elapsed = 0
  /\ lastLatency = 0
  /\ lastSleep = 0
  /\ observed = "none"
  /\ XcIdle
  /\ PoseIdle
  /\ MergeIdle
  /\ DbIdle

AnalyzeNext ==
  \/ AnalyzeEntry
  \/ \E ok \in BOOLEAN : UploadSettles(ok)
  \/ PollNext
  \/ InferStart
  \/ \E o \in InferOutcomes : InferSettles(o)

SpecAnalyze == AnalyzeInit /\ [][AnalyzeNext]_vars

\* The routes together, the upload runs drawing from fewer outcomes.
CrudAiSamples ==
  {JsNull,
   AiObject(FullTimestamps, Obj(AnglesA), Obj(AnglesT), Obj(AnglesA), Obj(AnglesT))}
CrudRoadmapSamples ==
  {[kind |-> "null", items |-> <<>>],
   [kind |-> "array", items |-> <<Roadmap("Ideal"), Roadmap("Playable")>>]}

\* req.params.id of the favorite, comment, launch-monitor and reprocess
\* requests: the first swing id, whether or not that Swing exists yet or still.
CrudTargets == {1}

CrudNext ==
  \/ \E r \in Runs : UploadRequest(r, TRUE, TRUE)
  \/ \E r \in Runs, o \in {"encodeError", "ok"} : CompressSettles(r, o)
  \/ \E r \in Runs : AnalyzeThrows(r, "pollTimeout")
  \/ \E r \in Runs, d \in CrudAiSamples : AnalyzeReturns(r, d)
  \/ \E r \in Runs, rm \in CrudRoadmapSamples : CoachSettles(r, rm)
  \/ \E id \in Runs : DeleteSwing(id)
  \/ \E id \in CrudTargets : ToggleFavorite(id)
  \/ \E id \in CrudTargets, t \in CommentTexts : AddComment(id, t)
  \/ \E id \in CrudTargets, f \in BOOLEAN : LmRequest(id, f)
  \/ \E id \in CrudTargets, o \in LmOutcomes : LmSettles(id, o)
  \/ \E id \in CrudTargets : Reprocess(id)

SpecCrud == Init /\ [][CrudNext]_vars

\* The upload route alone, over answers of the remote analysis whose
\* checkpoints are in order and out of order.
UnorderedTimestamps ==
  Obj([address |-> Num(0), top |-> Num(1200), impact |-> Num(1100), finish |-> Num(1900)])
IngestAiSamples ==
  {AiObject(FullTimestamps, Obj(AnglesA), Obj(AnglesT), Obj(AnglesA), Obj(AnglesT)),
   AiObject(UnorderedTimestamps, Obj(AnglesA), Obj(AnglesT), Obj(AnglesA), Obj(AnglesT))}

IngestNext ==
  \/ \E r \in Runs : UploadRequest(r, TRUE, TRUE)
  \/ \E r \in Runs, o \in {"encodeError", "ok"} : CompressSettles(r, o)
  \/ \E r \in Runs, d \in IngestAiSamples : AnalyzeReturns(r, d)
  \/ \E r \in Runs, rm \in CrudRoadmapSamples : CoachSettles(r, rm)

SpecIngest == Init /\ [][IngestNext]_vars

\* What compressVideo is called on.
SizeSamples == {10 * 1024 * 1024, 25 * 1024 * 1024, 25 * 1024 * 1024 + 1,
                200 * 1024 * 1024}
DurationSamples == (0..MaxDurationDs) \cup {3261, 3262, 4000, 16000, 16001, 16383}
HeightSamples == {720, 1080, 2160}

TranscodeInit ==
  /\ ApiInit
  /\ PollIdle
  /\ PoseIdle
  /\ MergeIdle
  /\ DbIdle
  /\ \E s \in SizeSamples, d \in DurationSamples, h \in HeightSamples :
       xc = [XcOff EXCEPT !.stage = "probe", !.sizeBytes = s, !.reported = d,
                          !.height = h, !.rawExists = TRUE]

TranscodeNext ==
  \/ \E ok \in BOOLEAN : XcProbe(ok)
  \/ XcStat
  \/ \E ok \in BOOLEAN, written \in BOOLEAN : XcEncodeEnds(ok, written)
  \/ \E o \in UnlinkOutcomes : XcCleanup(o)

SpecTranscode == TranscodeInit /\ [][TranscodeNext]_vars

PoseInit ==
  /\ ApiInit
  /\ PollIdle
  /\ XcIdle
  /\ MergeIdle
  /\ DbIdle
  /\ \E ok \in BOOLEAN : pose = [PoseOff EXCEPT !.stage = "running", !.spawned = ok]

PoseNext ==
  \/ \E c \in StdoutChunks : PoseStdoutData(c)
  \/ \E n \in StderrChunkSizes : PoseStderrData(n)
  \/ \E code \in ExitCodes : PoseClose(code)
  \/ PoseError
  \/ PoseTick

SpecPose == PoseInit /\ [][PoseNext]_vars

MergeInit ==
  /\ ApiInit
  /\ PollIdle
  /\ XcIdle
  /\ PoseIdle
  /\ DbIdle
  /\ \E p \in PoseSamples : merged = [MergeOff EXCEPT !.stage = "call", !.poseData = p]

MergeNext ==
  \/ MergeCall
  \/ MergeThrows
  \/ \E c \in EstimateResponses : MergeSettles(c)

SpecMerge == MergeInit /\ [][MergeNext]_vars

\* setupDB called again and again on a new or an existing database file, with
\* swings written and removed in between.
SetupInit ==
  /\ ApiInit
  /\ PollIdle
  /\ XcIdle
  /\ PoseIdle
  /\ MergeIdle
  /\ setups = 0 /\ setupThrew = FALSE
  /\ \/ schema = FALSE /\ players = {}
     \/ schema = TRUE /\ players = {GuestGolfer}

SetupNext ==
  \/ SetupDB
  \/ \E id \in Runs, c \in SetupClubs, u \in SetupUrls : SetupInsertSwing(id, c, u)
  \/ \E id \in Runs : SetupDeleteSwing(id)

SpecSetup == SetupInit /\ [][SetupNext]_vars

\* ------------------------------------------------------------------ claims
Written(r) == r \in DOMAIN swings \/ r \in deleted
Populated(col) == col # SqlNull /\ col # JSONstringify(JsNull)
WellFormedRoadmaps(rm) ==
  /\ rm.kind = "array"
  /\ Len(rm.items) > 0
  /\ \A i \in 1..Len(rm.items) : rm.items[i].goalType \in {Str("Ideal"), Str("Playable")}

\* C1: whenever the analysis stage of an upload run that carried a file and a
\* club has failed, the response of that run is a success carrying the swing id.
C1_AnalysisFailureStillAccepted ==
  \A r \in Runs : analysis[r] = "threw" => resp[r] = Response(200, r)

C3_StoredResultComplete ==
  \A m \in swing_metrics :
    /\ Populated(m.addressTimeMs) /\ Populated(m.topTimeMs)
    /\ Populated(m.impactTimeMs) /\ Populated(m.finishTimeMs)
    /\ Populated(m.addressAngles) /\ Populated(m.topAngles)
    /\ Populated(m.impactAngles) /\ Populated(m.finishAngles)

\* C4: in every state in which the analysis call of a run is in progress, or
\* has settled, the run's Swing record has been written (it is present unless
\* explicitly deleted), and while the call is in progress it is unanalyzed.
C4_SwingWrittenBeforeAnalysis ==
  \A r \in Runs :
    (pc[r] = "analyzing" \/ analysis[r] # "none") =>
      /\ Written(r)
      /\ (pc[r] = "analyzing" /\ r \in DOMAIN swings) => swings[r].analyzed = FALSE
C4_Witness ==
  \E r \in Runs : pc[r] = "analyzing" /\ r \in DOMAIN swings /\ ~swings[r].analyzed

C6_TranscodeFallback ==
  \A r \in Runs :
    /\ transcode[r] = "failed" =>
         /\ pc[r] = "analyzing" \/ analysis[r] # "none"
         /\ absolutePath[r] = RawFile(r)
         /\ r \in DOMAIN swings => swings[r].videoUrl = RawFile(r)
    /\ transcode[r] = "ok" =>
         /\ pc[r] = "analyzing" \/ analysis[r] # "none"
         /\ absolutePath[r] = CompressedFile(r)
         /\ r \in DOMAIN swings => swings[r].videoUrl = CompressedFile(r)
C6_Witness ==
  \E r \in Runs :
    /\ transcode[r] = "failed" /\ pc[r] = "analyzing"
    /\ r \in DOMAIN swings /\ swings[r].videoUrl = RawFile(r)

\* C7: no completed run leaves a Swing that has a swing_metrics row but
\* analyzed = false.
C7_StoredResultEndsAnalyzed ==
  \A r \in Runs :
    (pc[r] = "done" /\ r \in DOMAIN swings /\ MetricsOf(swing_metrics, r) # {}) =>
      swings[r].analyzed = TRUE

\* C8: after a run whose coaching response was not a well-formed roadmap list,
\* no lessons row is stored for the swing, the response is a success, and the
\* swing_metrics row is kept (unless the Swing was explicitly deleted).
C8_MalformedRoadmapsIgnored ==
  \A r \in Runs :
    (pc[r] = "done" /\ coaching[r].kind # "none" /\ ~WellFormedRoadmaps(coaching[r])) =>
      /\ LessonsOf(lessons, r) = <<>>
      /\ resp[r] = Response(200, r)
      /\ r \notin deleted => MetricsOf(swing_metrics, r) # {}

\* C9: the lessons rows of a swing are none, or exactly two: one Ideal and one
\* Playable.
C9_ZeroOrTwoRoadmaps ==
  \A id \in Runs :
    LET ls == LessonsOf(lessons, id)
    IN \/ ls = <<>>
       \/ /\ Len(ls) = 2
          /\ {ls[1].goalType, ls[2].goalType} = {Str("Ideal"), Str("Playable")}

\* C10 (as claimed): waitForFileActive has ended no later than one polling
\* interval after the maximum wait.
C10_EndsWithinOneInterval ==
  wpc \in PollTerminal => elapsed <= MAX_WAIT_MS + POLL_INTERVAL_MS

\* C10 (amended): every poll starts before the maximum wait has passed, so the
\* wait ends no later than the maximum wait plus the duration of the last status
\* request and of the sleep that followed it.
C10_BoundedWait ==
  /\ wpc = "getting" => elapsed < MAX_WAIT_MS
  /\ wpc \in {"sleeping", "returned", "failed", "getError"} =>
       elapsed < MAX_WAIT_MS + lastLatency
  /\ wpc \in {"check", "timeout"} => elapsed < MAX_WAIT_MS + lastLatency + lastSleep
C10_Witness ==
  wpc = "timeout" /\ elapsed > MAX_WAIT_MS + POLL_INTERVAL_MS


\* C11: in video mode the inference request is issued, or has been issued, only
\* in states whose last readiness poll observed the uploaded file ACTIVE: never
\* before any poll, nor after a poll that ended in FAILED, in a timeout or in a
\* request error.
C11_InferenceOnlyAfterActive ==
  wpc \in {"inferring"} \cup InferOutcomes => observed = "ACTIVE"
C11_Witness ==
  wpc = "inferring" /\ observed = "ACTIVE" /\ elapsed >= POLL_INTERVAL_MS


\* C12: whenever compressVideo targets a bitrate (input above the 25 MB budget)
\* for a duration of at least 0.1 s, the video bitrate it hands to the encoder
\* is strictly positive and at least the floor of 500 kbps.
C12_BitrateAtLeastFloor ==
  (xc.mode = "bitrate" /\ xc.durationDs >= 1) =>
     /\ xc.kbps > 0
     /\ xc.kbps >= MinVideoBitrateKbps
     /\ xc.maxrate = xc.kbps
C12_Witness ==
  /\ xc.mode = "bitrate"
  /\ xc.durationDs >= 1
  /\ RawVideoBitrate(xc.durationDs) < 0
  /\ xc.kbps = MinVideoBitrateKbps

\* C13 as stated: a 60-second, 200 MB input gets a target video bitrate of
\* approximately 2594 kbps (here: within 5 percent of it).
SixtySeconds200MB ==
  /\ xc.mode = "bitrate"
  /\ xc.sizeBytes = 200 * 1024 * 1024
  /\ xc.durationDs = 600
C13_About2594 ==
  SixtySeconds200MB =>
     /\ 100 * xc.kbps >= 95 * 2594
     /\ 100 * xc.kbps <= 105 * 2594
\* C13 amended: a 60-second, 200 MB input gets a target video bitrate of
\* 3285 kbps, the floor of (25*8*1024*1024/60 - 128*1024)/1024.
C13_Is3285 == SixtySeconds200MB => xc.kbps = 3285
C13_Witness == SixtySeconds200MB /\ xc.stage = "done"


\* C15: an upload request without the video file or without the club is
\* answered 400 in the step that receives it; that step writes no table and
\* starts neither compressVideo nor analyzeSwingVideo, and no later step of the
\* rejected run does: it has no swings, swing_metrics or lessons row.
RejectedRunIsInert(r) ==
  resp[r].status = 400 =>
     /\ pc[r] = "done"
     /\ r \notin DOMAIN swings
     /\ MetricsOf(swing_metrics, r) = {}
     /\ LessonsOf(lessons, r) = <<>>
     /\ transcode[r] = "none" /\ analysis[r] = "none"
     /\ coaching[r].kind = "none"
     /\ absolutePath[r] = NoFile
C15_InvalidUploadRejected ==
  /\ [](\A r \in Runs : RejectedRunIsInert(r))
  /\ [][\A r \in Runs, hasFile \in BOOLEAN, hasClub \in BOOLEAN :
          (UploadRequest(r, hasFile, hasClub) /\ ~(hasFile /\ hasClub)) =>
             /\ resp'[r] = Response(400, 0)
             /\ pc'[r] = "done"
             /\ UNCHANGED <<swings, swing_metrics, lessons, transcode, analysis,
                            coaching>>]_vars
C15_Witness ==
  /\ resp[1].status = 400
  /\ pc[2] = "done" /\ resp[2].status = 200 /\ 2 \in DOMAIN swings


\* C14: the step that deletes an existing Swing leaves no swing_metrics,
\* lessons, launch_monitor_data or comments row with that swing id, whichever of
\* them the Swing had, and a fetch of that id then answers 404.
NoDependents(id) ==
  /\ MetricsOf(swing_metrics, id) = {}
  /\ LessonsOf(lessons, id) = <<>>
  /\ \A l \in launch_monitor_data : l.swingId # id
  /\ \A i \in DOMAIN comments : comments[i].swingId # id
PreviousToggle(id) == reply.op = "favorite" /\ reply.id = id /\ reply.status = 200
ReadBack(stored, returned) ==
  IF IsString(stored) THEN returned = JSONparse(stored) /\ ~IsString(returned)
  ELSE returned = stored
C17_ReadReturnsStructured ==
  \A r \in Runs :
    (r \in DOMAIN swings /\ swings[r].analyzed) =>
      /\ \A m \in MetricsOf(swing_metrics, r) :
           \E g \in GetSwing(r).metrics :
              /\ ReadBack(m.addressAngles, g.addressAngles)
              /\ ReadBack(m.topAngles, g.topAngles)
              /\ ReadBack(m.impactAngles, g.impactAngles)
              /\ ReadBack(m.finishAngles, g.finishAngles)
      /\ \A i \in DOMAIN LessonsOf(lessons, r) :
           ReadBack(LessonsOf(lessons, r)[i].drills, GetSwing(r).lessons[i].drills)


\* C18: a reprocess request for an existing, unanalyzed Swing is served: it is
\* not answered 404, it creates no Swing, and it puts that Swing's pipeline
\* back at the transcoding stage.
C18_ReprocessRerunsPipeline ==
  [][\A id \in Runs :
       (Reprocess(id) /\ id \in DOMAIN swings /\ ~swings[id].analyzed) =>
          /\ reply'.status # 404
          /\ DOMAIN swings' = DOMAIN swings
          /\ pc'[id] = "compressing"]_vars

\* C19: the analyzed flag of a stored Swing changes only in the last step of
\* that Swing's own upload run (the one that answers 200), and only from false
\* to true; a Swing is stored unanalyzed; every other step of every route
\* leaves every stored Swing's flag as it was.
C19_AnalyzedSetOnlyByOwnRun ==
  [][\A id \in Runs :
       /\ (id \in DOMAIN swings /\ id \in DOMAIN swings'
             /\ swings'[id].analyzed # swings[id].analyzed) =>
            /\ ~swings[id].analyzed /\ swings'[id].analyzed
            /\ pc[id] = "coaching" /\ pc'[id] = "done"
            /\ resp'[id] = Response(200, id)
       /\ (id \notin DOMAIN swings /\ id \in DOMAIN swings') =>
            ~swings'[id].analyzed]_vars
C19_Witness ==
  /\ DOMAIN swings = {1, 2}
  /\ swings[1].analyzed /\ ~swings[2].analyzed
  /\ pc[2] = "coaching"
  /\ crudOps = MaxCrudOps
  /\ comments # <<>> /\ launch_monitor_data # {} /\ swings[1].isFavorite = 1


\* C20 as stated: once the extractor process has closed, analyzePose has
\* succeeded exactly when the exit code was 0, stdout parsed as one JSON
\* document and that document has no error field; otherwise it has raised; a
\* non-zero exit carries at most 500 characters of stderr; a successful result
\* is the parsed stdout document alone.
HasErrorField(doc) == doc \in {"error", "fullErrEmpty"}
ExitErrorCarriesExcerpt ==
  pose.exitCode # 0 =>
     /\ pose.error.kind = "exit"
     /\ pose.error.excerptLen <= 500
     /\ pose.error.excerptLen = Min(pose.stderrLen, 500)
ResultIsStdoutDocument ==
  IF pose.promise = "resolved"
  THEN pose.value = Trim(pose.stdout)[1] /\ pose.error = NoPoseError
  ELSE pose.promise = "rejected" /\ pose.value = "none"
C22_PoseWaitBounded ==
  (pose.stage = "running" /\ pose.spawned /\ pose.waited >= MaxPoseTicks) =>
     pose.promise # "pending"


\* C23: whenever getCoachingFromPoseData returns a merged result, its four
\* timestamps and four angle sets are those of the pose data it was given, and
\* its speed, path and distance are those of the remote answer, whatever else
\* that answer contains.
C23_PoseOwnsAnglesAndTimestamps ==
  merged.outcome = "merged" =>
     /\ merged.value.timestampsMs = merged.poseData.timestampsMs
     /\ merged.value.addressAngles = merged.poseData.addressAngles
     /\ merged.value.topAngles = merged.poseData.topAngles
     /\ merged.value.impactAngles = merged.poseData.impactAngles
     /\ merged.value.finishAngles = merged.poseData.finishAngles
     /\ merged.value.estimatedClubSpeed = merged.response[2].estimatedClubSpeed
     /\ merged.value.estimatedClubPath = merged.response[2].estimatedClubPath
     /\ merged.value.estimatedDistance = merged.response[2].estimatedDistance
C23_Witness ==
  /\ merged.outcome = "merged"
  /\ merged.response = EstimatesAndAngles
  /\ merged.poseData.timestampsMs = FullTimestamps
  /\ merged.poseData.addressAngles = Obj(AnglesA)


\* C24: every stored swing_metrics row has its checkpoint timestamps in order:
\* address <= top <= impact <= finish.
NotAfter(a, b) == a[1] = "number" /\ b[1] = "number" /\ a[2] <= b[2]
C24_TimestampsOrdered ==
  \A m \in swing_metrics :
     /\ NotAfter(m.addressTimeMs, m.topTimeMs)
     /\ NotAfter(m.topTimeMs, m.impactTimeMs)
     /\ NotAfter(m.impactTimeMs, m.finishTimeMs)

\* C29: under every interleaving of upload runs, deletes, favorite toggles,
\* comments and launch-monitor attaches, a stored Swing whose analyzed flag is
\* true has a swing_metrics row.
C29_AnalyzedHasMetrics ==
  \A id \in DOMAIN swings : swings[id].analyzed => MetricsOf(swing_metrics, id) # {}
C29_Witness ==
  /\ 2 \in DOMAIN swings /\ swings[2].analyzed
  /\ 1 \in deleted /\ analysis[1] = "parsed"
  /\ launch_monitor_data # {} /\ crudOps = MaxCrudOps

C25_OneWorkingFile ==
  /\ xc.stage = "done" =>
       /\ xc.working = "output" /\ xc.outExists
       /\ ~xc.rawExists
  /\ xc.stage = "failed" =>
       /\ xc.working = "raw" /\ xc.rawExists

\* C26: in both encode modes the height asked of the encoder is the smaller of
\* 1080 and the input's height, so never above either.
C26_HeightIsMin ==
  xc.mode \in {"crf", "bitrate"} =>
     /\ xc.outHeight <= xc.height
     /\ xc.outHeight <= 1080
     /\ xc.outHeight \in {xc.height, 1080}
     /\ (xc.mode = "crf") = (xc.sizeBytes <= TARGET_SIZE_MB * 1024 * 1024)
C26_Witness ==
  /\ xc.mode = "crf" /\ xc.height = 720 /\ xc.outHeight = 720
  /\ xc.stage = "done"
C26_WitnessBitrate ==
  xc.mode = "bitrate" /\ xc.height = 2160 /\ xc.outHeight = 1080


\* C27: setupDB is idempotent: no call throws, after any number of calls (one
\* at least) players holds exactly the row of 'usr_12345' / 'Guest Golfer', and
\* a call leaves the rows of swings as they were.
C27_SetupIdempotent ==
  /\ [](~setupThrew)
  /\ [](setups >= 1 => players = {GuestGolfer} /\ schema)
  /\ [][setups' # setups => swings' = swings]_vars
C27_Witness ==
  /\ setups = MaxSetups
  /\ players = {GuestGolfer}
  /\ 1 \in DOMAIN swings /\ 2 \notin DOMAIN swings


\* C28 (as claimed): waitForFileActive returns exactly when a poll, started
\* before the maximum wait had passed, observed ACTIVE; it raises the
\* processing-failed error exactly when a poll observed FAILED; every other end
\* is the timeout error; and once a poll has observed ACTIVE or FAILED there is
\* no further poll and no further sleep.
PollSettled == observed \in {"ACTIVE", "FAILED"}
PollsStartInTime == wpc = "getting" => elapsed < MAX_WAIT_MS
NothingAfterSettled == PollSettled => UNCHANGED pollVars
C28_ReturnFailOrTimeout ==
  /\ [](PollsStartInTime)
  /\ []((wpc = "returned") = (observed = "ACTIVE"))
  /\ []((wpc = "failed") = (observed = "FAILED"))
  /\ []((wpc \in PollTerminal /\ ~PollSettled) => wpc = "timeout")
  /\ [][NothingAfterSettled]_vars

\* C28 (amended): the same, with a fourth end: when a status request itself
\* fails, its error leaves waitForFileActive at once; the timeout error is
\* raised only by a loop test made after the maximum wait has passed.
C28_ReturnFailTimeoutOrRequestError ==
  /\ [](PollsStartInTime)
  /\ []((wpc = "returned") = (observed = "ACTIVE"))
  /\ []((wpc = "failed") = (observed = "FAILED"))
  /\ []((wpc \in PollTerminal /\ ~PollSettled) => wpc \in {"timeout", "getError"})
  /\ [](wpc = "timeout" => elapsed >= MAX_WAIT_MS)
  /\ [](wpc = "getError" => elapsed < MAX_WAIT_MS + lastLatency)
  /\ [][NothingAfterSettled]_vars
C28_Witness ==
  wpc = "returned" /\ observed = "ACTIVE" /\ lastSleep > 0 /\ elapsed > MAX_WAIT_MS

====
